---- MODULE Spec2Model ----
(***************************************************************************)
(* Model of legid (src/src/index.ts): createId / verifyId and the helpers  *)
(* they are built from.                                                    *)
(*                                                                         *)
(* Representation.                                                         *)
(*   - a hexadecimal string is a sequence of digit values 0..15; a read    *)
(*     past the end of a string (JavaScript `undefined`) is UNDEFINED;     *)
(*   - an identifier is a sequence of one-character strings;               *)
(*   - a BigInt is a sequence of limbs of six hex digits, most significant *)
(*     first, without leading zeros (0n is the empty sequence), so that    *)
(*     the arithmetic has no width limit;                                  *)
(*   - a salt and a digest input are sequences of byte values;             *)
(*   - SHA-1 is a fixed but unknown function to 40 hex digits: the         *)
(*     variable hashSeed, chosen in Init, selects it from a family.        *)
(***************************************************************************)
EXTENDS Integers, Sequences, FiniteSets, TLC

VARIABLES
    pc,                 \* position of the call in progress
    approximateLength,  \* createId: options.approximateLength
    salt,               \* createId / verifyId: options.salt
    hexLength,          \* createId: let hexLength
    length,             \* generateRandomHexToken: parameter length
    array,              \* generateRandomHexToken: the Uint8Array
    hexToken,           \* createId: const hexToken
    hexHash,            \* createId: const hexHash
    hexId,              \* createId: let hexId
    tokenReads,         \* indices createId's loop read from hexToken
    hashReads,          \* indices createId's loop read from hexHash
    id,                 \* identifier returned by createId / given to verifyId
    origId,             \* identifier before a character was replaced
    options,            \* verifyId: the options argument
    result,             \* outcome of the last call
    draws,              \* calls of crypto.getRandomValues so far
    digests,            \* calls of crypto.subtle.digest so far
    hashSeed,           \* which function SHA-1 is
    hex                 \* codec: the hexadecimal string under conversion

vars == <<pc, approximateLength, salt, hexLength, length, array, hexToken,
          hexHash, hexId, tokenReads, hashReads, id, origId, options, result, draws,
          digests, hashSeed, hex>>

-----------------------------------------------------------------------------
(* Constants of the program *)

SALT == <<108, 101, 103, 105, 100, 58>>      \* 'legid:'

ALPHABET ==
    << "a","b","c","d","e","f","g","h","i","j","k","l","m",
       "n","o","p","q","r","s","t","u","v","w","x","y","z",
       "A","B","C","D","E","F","G","H","I","J","K","L","M",
       "N","O","P","Q","R","S","T","U","V","W","X","Y","Z",
       "0","1","2","3","4","5","6","7","8","9" >>

\* HEX_TO_ALPHABET_RATIO = 1.48855, kept exact as a ratio of integers
RATIO_NUM == 148855
RATIO_DEN == 100000

MAX_ID_LENGTH == 54

\* length of a SHA-1 digest in hexadecimal digits (160 bits)
DIGEST_HEX_LENGTH == 40

-----------------------------------------------------------------------------
(* Bounds of the model *)

MaxHashSeed == 2        \* SHA-1 is one of the functions 0..MaxHashSeed
MaxFill == 1            \* fill patterns of the random buffer: 0..MaxFill
MaxDraws == 3           \* the draw counter saturates here
MaxTamperLen == 3       \* identifiers up to this length get characters replaced
MaxCodecLen == 3        \* the codec is run on every hex string up to this length
MaxRawIdLen == 3        \* verifyId is run on every identifier up to this length
MaxExcess == 1          \* approximateLength ranges this far outside 1..MAX_ID_LENGTH

-----------------------------------------------------------------------------
(* JavaScript values *)

UNDEFINED == -1                      \* s[i] for i >= s.length

\* outcome of a call: a returned value or a thrown error (rejected promise)
Return(v) == [threw |-> FALSE, value |-> v]
Throw(e) == [threw |-> TRUE, value |-> e]
TypeError == "TypeError"
SyntaxError == "SyntaxError"
InvalidCharacter == "InvalidCharacter"   \* Error(`Invalid character: ...`)
InvalidLength == "InvalidLength"         \* Error('ID length ...')

HexDigit == 0..15

\* s[i] of a JavaScript string, i 0-based
At(s, i) == IF i >= 0 /\ i < Len(s) THEN s[i + 1] ELSE UNDEFINED

\* s.substring(0, n)
Substring0(s, n) == SubSeq(s, 1, IF n < Len(s) THEN n ELSE Len(s))

\* a.startsWith(b)
StartsWith(a, b) == Len(b) <= Len(a) /\ SubSeq(a, 1, Len(b)) = b

\* Math.ceil(n / 2) for an integer n >= 0
CeilHalf(n) == (n + 1) \div 2

\* n >> 1 for an integer n >= 0
Shr1(n) == n \div 2

-----------------------------------------------------------------------------
(* BigInt arithmetic: a BigInt is its sequence of limbs of LimbDigits hex  *)
(* digits each, most significant first, without leading zero limbs         *)

LimbDigits == 6
LIMB == 16777216                     \* 16^LimbDigits

Pow16(e) == CASE e = 0 -> 1 [] e = 1 -> 16 [] e = 2 -> 256 [] e = 3 -> 4096
              [] e = 4 -> 65536 [] e = 5 -> 1048576 [] OTHER -> LIMB

RECURSIVE StripZeros(_)
StripZeros(ds) ==
    IF ds = <<>> THEN <<>>
    ELSE IF ds[1] = 0 THEN StripZeros(Tail(ds)) ELSE ds

\* BigInt('0x' + hex) throws a SyntaxError on a digit that is not hexadecimal
IsHex(h) == \A k \in 1..Len(h) : h[k] \in HexDigit

\* value of the digits h[from..to] (at most LimbDigits of them)
RECURSIVE HexValue(_, _, _)
HexValue(h, from, to) ==
    IF from > to THEN 0 ELSE HexValue(h, from, to - 1) * 16 + h[to]

BigIntOfHex(h) ==
    LET n == Len(h)
        m == (n + LimbDigits - 1) \div LimbDigits
        limb(j) == LET hi == n - LimbDigits * (m - j)
                       lo == hi - LimbDigits + 1
                   IN  HexValue(h, IF lo < 1 THEN 1 ELSE lo, hi)
    IN  StripZeros([j \in 1..m |-> limb(j)])

\* decimal / base and decimal % base by long division: limb k of ds is
\* divided with r carried in from the limbs before it
DivStep[ds \in Seq(Nat), base \in Nat, k \in Nat, r \in Nat, q \in Seq(Nat)] ==
    IF k > Len(ds) THEN [q |-> StripZeros(q), r |-> r]
    ELSE DivStep[ds, base, k + 1, (r * LIMB + ds[k]) % base,
                 Append(q, (r * LIMB + ds[k]) \div base)]

BigDivMod(ds, base) == DivStep[ds, base, 1, 0, <<>>]

\* a quotient and a remainder
DivResult == [q : Seq(Nat), r : Nat]

\* decimal * base + index: limb k of ds is multiplied with carry carried in
\* from the limbs after it; low holds the limbs already computed
MulAddStep[ds \in Seq(Nat), base \in Nat, k \in Nat, carry \in Nat, low \in Seq(Nat)] ==
    IF k = 0
    THEN IF carry = 0 THEN low ELSE <<carry>> \o low
    ELSE MulAddStep[ds, base, k - 1, (ds[k] * base + carry) \div LIMB,
                    <<(ds[k] * base + carry) % LIMB>> \o low]

BigMulAdd(ds, base, index) == MulAddStep[ds, base, Len(ds), index, <<>>]

\* variant: every limb rendered with all its digits, as bytes are rendered
BigToString16_Padded(ds) ==
    IF ds = <<>> THEN <<0>>
    ELSE [k \in 1..(Len(ds) * LimbDigits) |->
            (ds[(k - 1) \div LimbDigits + 1]
               \div Pow16(LimbDigits - 1 - ((k - 1) % LimbDigits))) % 16]

\* decimal.toString(16): no leading zero, and "0" for 0n
BigToString16(ds) ==
    IF ds = <<>> THEN <<0>>
    ELSE LET digit(k) == (ds[(k - 1) \div LimbDigits + 1]
                            \div Pow16(LimbDigits - 1 - ((k - 1) % LimbDigits))) % 16
             all == [k \in 1..(Len(ds) * LimbDigits) |-> digit(k)]
             first == CHOOSE k \in 1..LimbDigits :
                        /\ all[k] # 0
                        /\ \A j \in 1..(k - 1) : all[j] = 0
         IN  SubSeq(all, first, Len(all))

-----------------------------------------------------------------------------
(* calculateHexLength *)

\* variant: the ratio applied the wrong way round
calculateHexLength_Inverse(alphabetLength) ==
    (alphabetLength * RATIO_DEN) \div RATIO_NUM

calculateHexLength(alphabetLength) ==
    (alphabetLength * RATIO_NUM) \div RATIO_DEN

-----------------------------------------------------------------------------
(* hexToCustomAlphabet *)

\* the do { ... } while (decimal > 0n) loop, as a function of the loop's
\* variables decimal and result
\* variables: dm holds decimal / base and decimal % base of the iteration
hexToCustomAlphabetLoop[dm \in DivResult, res \in Seq(STRING)] ==
    IF dm.q # <<>>
    THEN hexToCustomAlphabetLoop[BigDivMod(dm.q, Len(ALPHABET)),
                                 <<ALPHABET[dm.r + 1]>> \o res]
    ELSE <<ALPHABET[dm.r + 1]>> \o res

hexToCustomAlphabet(h) ==
    IF h = <<>> THEN Return(<<>>)
    ELSE IF ~IsHex(h) THEN Throw(SyntaxError)
    ELSE Return(hexToCustomAlphabetLoop[BigDivMod(BigIntOfHex(h), Len(ALPHABET)), <<>>])

-----------------------------------------------------------------------------
(* customAlphabetToHex *)

\* ALPHABET.indexOf(char)
IndexOf(char) ==
    IF \E k \in 1..Len(ALPHABET) : ALPHABET[k] = char
    THEN (CHOOSE k \in 1..Len(ALPHABET) : ALPHABET[k] = char) - 1
    ELSE -1

\* the for loop, as a function of the string, the position k = i + 1 and
\* decimal; a character outside the alphabet throws
customAlphabetToHexLoop[customStr \in Seq(STRING), k \in Nat, decimal \in Seq(Nat)] ==
    IF k > Len(customStr) THEN Return(BigToString16(decimal))
    ELSE LET index == IndexOf(customStr[k])
         IN  IF index = -1 THEN Throw(InvalidCharacter)
             ELSE customAlphabetToHexLoop[customStr, k + 1,
                      BigMulAdd(decimal, Len(ALPHABET), index)]

customAlphabetToHex(customStr) ==
    IF customStr = <<>> THEN Return(<<>>)
    ELSE customAlphabetToHexLoop[customStr, 1, <<>>]

-----------------------------------------------------------------------------
(* generateRandomHexToken *)

\* what crypto.getRandomValues may put into an array of n bytes: the first
\* byte on either side of the threshold 16, the others all 0, all 255 or mixed
FirstBytes == {0, 15, 16, 167, 255}

FillByte(f, k) ==
    IF f = 0 THEN 0
    ELSE IF f = 1 THEN 255
    ELSE (f * 53 + k * 37) % 256

RandomArrays(n) ==
    { [k \in 1..n |-> IF k = 1 THEN b ELSE FillByte(f, k)] :
        b \in FirstBytes, f \in 0..MaxFill }

\* variant: only a first byte of zero is drawn again
FirstByteTooSmall_ZeroOnly(a) == Len(a) > 0 /\ a[1] = 0

\* the while condition array[0] < 16 (false when array[0] is undefined)
FirstByteTooSmall(a) == Len(a) > 0 /\ a[1] < 16

\* Array.from(array, byte => byte.toString(16).padStart(2, '0')).join('')
RECURSIVE arrayBufferToHex(_)
arrayBufferToHex(a) ==
    IF a = <<>> THEN <<>>
    ELSE <<a[1] \div 16, a[1] % 16>> \o arrayBufferToHex(Tail(a))

\* variants: one digit more than the even positions, and hexLength >> 1
TokenLength_Oversized(hl) == Shr1(hl) + 1
TokenLength_Short(hl) == Shr1(hl)

\* the length createId asks for: (hexLength + 1) >> 1
TokenLength(hl) == Shr1(hl + 1)

\* the return statement: hex.substring(0, length)
generateRandomHexTokenReturn(a, n) == Substring0(arrayBufferToHex(a), n)

-----------------------------------------------------------------------------
(* sha1 *)

\* TextEncoder.encode of a hexadecimal string: the codes of '0'..'9', 'a'..'f'
EncodeHex(h) == [k \in 1..Len(h) |-> IF h[k] < 10 THEN 48 + h[k] ELSE 87 + h[k]]

WeightedSum[bytes \in Seq(Nat), k \in Nat] ==
    IF k > Len(bytes) THEN 0
    ELSE (k * bytes[k] + WeightedSum[bytes, k + 1]) % 4096

\* digit j (1..40) of the digest of bytes under the function numbered seed:
\* 0 is constantly 00..0, 1 constantly ff..f, the others depend on the input
Sha1Digit(seed, sum, j) ==
    ((seed % 2) * 15 + (seed \div 2) * (sum + 7 * j + (sum \div 16) * j)) % 16

Sha1Digits[seed \in Nat, sum \in Nat] ==
    [j \in 1..DIGEST_HEX_LENGTH |-> Sha1Digit(seed, sum, j)]

sha1(bytes) == Sha1Digits[hashSeed, WeightedSum[bytes, 1]]

-----------------------------------------------------------------------------
(* createId *)

\* variant: a length of 0 passes the first guard
InvalidLengthGuard_ZeroAllowed(len) == len < 0 \/ len > MAX_ID_LENGTH

\* the two guards at the top of createId
InvalidLengthGuard(len) == len <= 0 \/ len > MAX_ID_LENGTH

\* the loop for (i = 0; i < hexLength; i++): the digit appended at index i
InterleaveDigit(token, hash, i) ==
    IF i % 2 = 1 THEN At(hash, Shr1(i)) ELSE At(token, Shr1(i))

Interleave(token, hash, hl) ==
    [k \in 1..hl |-> InterleaveDigit(token, hash, k - 1)]

\* the indices the loop reads from hexToken and from hexHash
InterleaveTokenReads(hl) == { Shr1(i) : i \in { j \in 0..(hl - 1) : j % 2 = 0 } }
InterleaveHashReads(hl) == { Shr1(i) : i \in { j \in 0..(hl - 1) : j % 2 = 1 } }

-----------------------------------------------------------------------------
(* verifyId *)

\* the options argument: not passed at all, or an object with or without salt
Options(passed, hasSalt, s) == [passed |-> passed, hasSalt |-> hasSalt, salt |-> s]
NoOptions == Options(FALSE, FALSE, <<>>)
WithSalt(s) == Options(TRUE, TRUE, s)

\* the for loop that splits hexId by the parity of the index
SplitLoop[h \in Seq(Int), i \in Nat, token \in Seq(Int), hash \in Seq(Int)] ==
    IF i >= Len(h) THEN [extractedHexToken |-> token, extractedHexHash |-> hash]
    ELSE IF i % 2 = 1
         THEN SplitLoop[h, i + 1, token, Append(hash, At(h, i))]
         ELSE SplitLoop[h, i + 1, Append(token, At(h, i)), hash]

\* variant: no check that a digest part was extracted
verifyIdBody_NoEmptyCheck(i, s) ==
    IF i = <<>> \/ Len(i) > MAX_ID_LENGTH THEN Return(FALSE)
    ELSE LET h == customAlphabetToHex(i)
         IN  IF h.threw THEN Return(FALSE)
             ELSE LET sp == SplitLoop[h.value, 0, <<>>, <<>>]
                  IN  Return(StartsWith(
                          sha1(s \o EncodeHex(sp.extractedHexToken)),
                          sp.extractedHexHash))

\* variant: only the first digit of the digest part is compared
verifyIdBody_FirstDigitOnly(i, s) ==
    IF i = <<>> \/ Len(i) > MAX_ID_LENGTH THEN Return(FALSE)
    ELSE LET h == customAlphabetToHex(i)
         IN  IF h.threw THEN Return(FALSE)
             ELSE LET sp == SplitLoop[h.value, 0, <<>>, <<>>]
                  IN  IF Len(sp.extractedHexHash) = 0 THEN Return(FALSE)
                      ELSE Return(StartsWith(
                               sha1(s \o EncodeHex(sp.extractedHexToken)),
                               SubSeq(sp.extractedHexHash, 1, 1)))

\* variant: an identifier of exactly MAX_ID_LENGTH characters is rejected too
verifyIdBody_LengthOffByOne(i, s) ==
    IF i = <<>> \/ Len(i) >= MAX_ID_LENGTH THEN Return(FALSE)
    ELSE LET h == customAlphabetToHex(i)
         IN  IF h.threw THEN Return(FALSE)
             ELSE LET sp == SplitLoop[h.value, 0, <<>>, <<>>]
                  IN  IF Len(sp.extractedHexHash) = 0 THEN Return(FALSE)
                      ELSE Return(StartsWith(
                               sha1(s \o EncodeHex(sp.extractedHexToken)),
                               sp.extractedHexHash))

\* the body of verifyId once salt is bound
verifyIdBody(i, s) ==
    IF i = <<>> \/ Len(i) > MAX_ID_LENGTH THEN Return(FALSE)
    ELSE LET h == customAlphabetToHex(i)
         IN  IF h.threw THEN Return(FALSE)            \* catch (error)
             ELSE LET sp == SplitLoop[h.value, 0, <<>>, <<>>]
                  IN  IF Len(sp.extractedHexHash) = 0 THEN Return(FALSE)
                      ELSE Return(StartsWith(
                               sha1(s \o EncodeHex(sp.extractedHexToken)),
                               sp.extractedHexHash))

\* verifyId(id, { salt = SALT } = {})
verifyId(i, opts) ==
    verifyIdBody(i, IF opts.passed /\ opts.hasSalt THEN opts.salt ELSE SALT)

\* the earlier definition, verifyId(id, { salt = SALT }): destructuring an
\* options argument that was not passed is a TypeError, which rejects the promise
SALT_OLD == <<108, 101, 103, 105, 116, 105, 100, 58>>     \* 'legitid:'

verifyIdOld(i, opts) ==
    IF ~opts.passed THEN Throw(TypeError)
    ELSE verifyIdBody(i, IF opts.hasSalt THEN opts.salt ELSE SALT_OLD)

-----------------------------------------------------------------------------
(* Inputs *)

Salts == {SALT, <<120>>}

Lengths == (1 - MaxExcess)..(MAX_ID_LENGTH + MaxExcess)

Bump(n) == IF n < MaxDraws THEN n + 1 ELSE MaxDraws

RECURSIVE SeqsUpTo(_, _)
SeqsUpTo(S, n) ==
    IF n = 0 THEN {<<>>}
    ELSE LET shorter == SeqsUpTo(S, n - 1)
         IN  shorter \cup { Append(q, x) : q \in {r \in shorter : Len(r) = n - 1}, x \in S }

Repeat(x, n) == [k \in 1..n |-> x]

\* identifiers handed to verifyId directly: every short string over a few
\* characters (one of them outside the alphabet) and strings at the length limit
RawChars == {"a", "b", "p", "q", "Z", "9", "@"}

RawIds ==
    SeqsUpTo(RawChars, MaxRawIdLen)
      \cup { Repeat("9", MAX_ID_LENGTH), Repeat("9", MAX_ID_LENGTH + 1),
             Repeat("a", MAX_ID_LENGTH + 1), <<"b">> \o Repeat("a", MAX_ID_LENGTH - 1),
             <<"c", "o", "n", "t", "a", "i", "n", "s", "@", "#", "$">> }

VerifyOptions == {NoOptions, Options(TRUE, FALSE, <<>>)} \cup { WithSalt(s) : s \in Salts }

-----------------------------------------------------------------------------
(* State machine: one call at a time *)

Init ==
    /\ pc = "idle"
    /\ approximateLength = 0
    /\ salt = <<>>
    /\ hexLength = 0
    /\ length = 0
    /\ array = <<>>
    /\ hexToken = <<>>
    /\ hexHash = <<>>
    /\ hexId = <<>>
    /\ tokenReads = {}
    /\ hashReads = {}
    /\ id = <<>>
    /\ origId = <<>>
    /\ options = NoOptions
    /\ result = Return(FALSE)
    /\ draws = 0
    /\ digests = 0
    /\ hashSeed \in 0..MaxHashSeed
    /\ hex = <<>>

\* createId is called: the two length checks, then calculateHexLength and the
\* call of generateRandomHexToken, which allocates the array
CreateIdCall ==
    /\ pc = "idle"
    /\ \E len \in Lengths, s \in Salts :
         /\ approximateLength' = len
         /\ salt' = s
         /\ IF InvalidLengthGuard(len)
            THEN /\ result' = Throw(InvalidLength)
                 /\ pc' = "threw"
                 /\ UNCHANGED <<hexLength, length>>
            ELSE /\ hexLength' = calculateHexLength(len)
                 /\ length' = TokenLength(calculateHexLength(len))
                 /\ pc' = "generate"
                 /\ UNCHANGED result
    /\ UNCHANGED <<array, hexToken, hexHash, hexId, tokenReads, hashReads, id,
                   origId, options, draws, digests, hashSeed, hex>>

\* generateRandomHexToken: the first crypto.getRandomValues(array)
GetRandomValues ==
    /\ pc = "generate"
    /\ array' \in RandomArrays(CeilHalf(length))
    /\ draws' = Bump(draws)
    /\ pc' = "loop"
    /\ UNCHANGED <<approximateLength, salt, hexLength, length, hexToken, hexHash,
                   hexId, tokenReads, hashReads, id, origId, options, result,
                   digests, hashSeed, hex>>

\* generateRandomHexToken: one iteration of while (array[0] < 16)
Reroll ==
    /\ pc = "loop"
    /\ FirstByteTooSmall(array)
    /\ array' \in RandomArrays(CeilHalf(length))
    /\ draws' = Bump(draws)
    /\ UNCHANGED <<pc, approximateLength, salt, hexLength, length, hexToken,
                   hexHash, hexId, tokenReads, hashReads, id, origId, options,
                   result, digests, hashSeed, hex>>

\* generateRandomHexToken: the loop exits and the token is returned
TokenReturn ==
    /\ pc = "loop"
    /\ ~FirstByteTooSmall(array)
    /\ hexToken' = generateRandomHexTokenReturn(array, length)
    /\ pc' = "digest"
    /\ UNCHANGED <<approximateLength, salt, hexLength, length, array, hexHash,
                   hexId, tokenReads, hashReads, id, origId, options, result,
                   draws, digests, hashSeed, hex>>

\* createId: hexHash = await sha1(salt + hexToken)
Digest ==
    /\ pc = "digest"
    /\ hexHash' = sha1(salt \o EncodeHex(hexToken))
    /\ digests' = Bump(digests)
    /\ pc' = "interleave"
    /\ UNCHANGED <<approximateLength, salt, hexLength, length, array, hexToken,
                   hexId, tokenReads, hashReads, id, origId, options, result,
                   draws, hashSeed, hex>>

\* createId: the loop that builds hexId
InterleaveLoop ==
    /\ pc = "interleave"
    /\ hexId' = Interleave(hexToken, hexHash, hexLength)
    /\ tokenReads' = InterleaveTokenReads(hexLength)
    /\ hashReads' = InterleaveHashReads(hexLength)
    /\ pc' = "convert"
    /\ UNCHANGED <<approximateLength, salt, hexLength, length, array, hexToken,
                   hexHash, id, origId, options, result, draws, digests,
                   hashSeed, hex>>

\* createId: return hexToCustomAlphabet(hexId)
CreateIdReturn ==
    /\ pc = "convert"
    /\ LET r == hexToCustomAlphabet(hexId)
       IN  /\ result' = r
           /\ IF r.threw THEN pc' = "threw" /\ UNCHANGED id
              ELSE pc' = "created" /\ id' = r.value
    /\ UNCHANGED <<approximateLength, salt, hexLength, length, array, hexToken,
                   hexHash, hexId, tokenReads, hashReads, origId, options,
                   draws, digests, hashSeed, hex>>

\* verifyId is called on the identifier createId returned
VerifyCreated ==
    /\ pc = "created"
    /\ \E s \in Salts :
         /\ options' = WithSalt(s)
         /\ result' = verifyId(id, WithSalt(s))
    /\ pc' = "verified"
    /\ UNCHANGED <<approximateLength, salt, hexLength, length, array, hexToken,
                   hexHash, hexId, tokenReads, hashReads, id, origId, draws,
                   digests, hashSeed, hex>>

\* verifyId is called on an arbitrary string
VerifyRaw ==
    /\ pc = "idle"
    /\ \E i \in RawIds, o \in VerifyOptions :
         /\ id' = i
         /\ options' = o
         /\ result' = verifyId(i, o)
    /\ pc' = "verifiedRaw"
    /\ UNCHANGED <<approximateLength, salt, hexLength, length, array, hexToken,
                   hexHash, hexId, tokenReads, hashReads, origId, draws,
                   digests, hashSeed, hex>>

\* the earlier verifyId is called on an arbitrary string
VerifyRawOld ==
    /\ pc = "idle"
    /\ \E i \in RawIds, o \in VerifyOptions :
         /\ id' = i
         /\ options' = o
         /\ result' = verifyIdOld(i, o)
    /\ pc' = "verifiedRawOld"
    /\ UNCHANGED <<approximateLength, salt, hexLength, length, array, hexToken,
                   hexHash, hexId, tokenReads, hashReads, origId, draws,
                   digests, hashSeed, hex>>

\* one character of the identifier createId returned is replaced by another
\* character of the alphabet, and verifyId is called with the original salt
ReplaceChar(i, p, c) == [i EXCEPT ![p] = c]

Tamper ==
    /\ pc = "created"
    /\ Len(id) <= MaxTamperLen
    /\ \E p \in 1..Len(id), k \in 1..Len(ALPHABET) :
         /\ ALPHABET[k] # id[p]
         /\ origId' = id
         /\ id' = ReplaceChar(id, p, ALPHABET[k])
         /\ options' = WithSalt(salt)
         /\ result' = verifyId(ReplaceChar(id, p, ALPHABET[k]), WithSalt(salt))
    /\ pc' = "tampered"
    /\ UNCHANGED <<approximateLength, salt, hexLength, length, array, hexToken,
                   hexHash, hexId, tokenReads, hashReads, draws, digests,
                   hashSeed, hex>>

\* the zero symbol ALPHABET[0] is put in front of an identifier
PadZero(i) == <<ALPHABET[1]>> \o i

\* verifyId is called on the identifier createId returned, padded
Pad ==
    /\ pc = "created"
    /\ \E s \in Salts :
         /\ options' = WithSalt(s)
         /\ result' = verifyId(PadZero(id), WithSalt(s))
    /\ origId' = id
    /\ id' = PadZero(id)
    /\ pc' = "padded"
    /\ UNCHANGED <<approximateLength, salt, hexLength, length, array, hexToken,
                   hexHash, hexId, tokenReads, hashReads, draws, digests,
                   hashSeed, hex>>

\* verifyId is called on an arbitrary string, padded
PadRaw ==
    /\ pc = "idle"
    /\ \E i \in RawIds, o \in VerifyOptions :
         /\ origId' = i
         /\ id' = PadZero(i)
         /\ options' = o
         /\ result' = verifyId(PadZero(i), o)
    /\ pc' = "paddedRaw"
    /\ UNCHANGED <<approximateLength, salt, hexLength, length, array, hexToken,
                   hexHash, hexId, tokenReads, hashReads, draws, digests,
                   hashSeed, hex>>

Next ==
    \/ CreateIdCall
    \/ GetRandomValues
    \/ Reroll
    \/ TokenReturn
    \/ Digest
    \/ InterleaveLoop
    \/ CreateIdReturn
    \/ VerifyCreated
    \/ VerifyRaw
    \/ VerifyRawOld
    \/ Tamper
    \/ Pad
    \/ PadRaw

Spec == Init /\ [][Next]_vars

\* createId on its own.  The host runs the call to completion: a step of it
\* that is possible is taken.  Nothing makes the entropy source deliver a
\* particular draw.
CreateInit == Init /\ hashSeed = 0

CreateNext ==
    \/ CreateIdCall
    \/ GetRandomValues
    \/ Reroll
    \/ TokenReturn
    \/ Digest
    \/ InterleaveLoop
    \/ CreateIdReturn

CreateSpec ==
    /\ CreateInit
    /\ [][CreateNext]_vars
    /\ WF_vars(GetRandomValues)
    /\ WF_vars(Reroll)
    /\ WF_vars(TokenReturn)
    /\ WF_vars(Digest)
    /\ WF_vars(InterleaveLoop)
    /\ WF_vars(CreateIdReturn)

-----------------------------------------------------------------------------
(* The codec on its own: hexToCustomAlphabet, then customAlphabetToHex *)

\* every hex string up to MaxCodecLen digits, and strings at the 80-digit budget
HexInputs ==
    SeqsUpTo(HexDigit, MaxCodecLen)
      \cup { Repeat(15, 2 * DIGEST_HEX_LENGTH),
             <<1>> \o Repeat(0, 2 * DIGEST_HEX_LENGTH - 1),
             <<0, 0>> \o Repeat(7, 2 * DIGEST_HEX_LENGTH - 2),
             <<3, 13>> \o Repeat(0, 6) \o <<9>> \o Repeat(0, 12) }

CodecInit ==
    /\ pc = "codec"
    /\ hex \in HexInputs
    /\ approximateLength = 0
    /\ salt = <<>>
    /\ hexLength = 0
    /\ length = 0
    /\ array = <<>>
    /\ hexToken = <<>>
    /\ hexHash = <<>>
    /\ hexId = <<>>
    /\ tokenReads = {}
    /\ hashReads = {}
    /\ id = <<>>
    /\ origId = <<>>
    /\ options = NoOptions
    /\ result = Return(<<>>)
    /\ draws = 0
    /\ digests = 0
    /\ hashSeed = 0

Encode ==
    /\ pc = "codec"
    /\ result' = hexToCustomAlphabet(hex)
    /\ id' = hexToCustomAlphabet(hex).value
    /\ pc' = "encoded"
    /\ UNCHANGED <<approximateLength, salt, hexLength, length, array, hexToken,
                   hexHash, hexId, tokenReads, hashReads, origId, options,
                   draws, digests, hashSeed, hex>>

Decode ==
    /\ pc = "encoded"
    /\ result' = customAlphabetToHex(id)
    /\ pc' = "decoded"
    /\ UNCHANGED <<approximateLength, salt, hexLength, length, array, hexToken,
                   hexHash, hexId, tokenReads, hashReads, id, origId, options,
                   draws, digests, hashSeed, hex>>

CodecNext == Encode \/ Decode

CodecSpec == CodecInit /\ [][CodecNext]_vars

-----------------------------------------------------------------------------
(* Properties *)

\* createId has been called and passed its length checks
InCreate == pc \in {"generate", "loop", "digest", "interleave", "convert", "created"}

\* the token has been returned by generateRandomHexToken
HasToken == pc \in {"digest", "interleave", "convert", "created", "verified", "tampered"}

\* hexId has been assembled
HasHexId == pc \in {"convert", "created", "verified", "tampered"}

\* the digits of h at even and at odd 0-based positions
EvenDigits(h) == [k \in 1..((Len(h) + 1) \div 2) |-> h[2 * k - 1]]
OddDigits(h) == [k \in 1..(Len(h) \div 2) |-> h[2 * k]]

InAlphabet(i) == \A k \in 1..Len(i) : \E a \in 1..Len(ALPHABET) : ALPHABET[a] = i[k]

\* the salt a verifyId call works with
SaltOf(o) == IF o.passed /\ o.hasSalt THEN o.salt ELSE SALT

\* C1: an identifier createId returned for approximateLength in 1..54 and a
\* salt is accepted by verifyId with the same salt.
C1_RoundTrip ==
    (pc = "verified" /\ approximateLength \in 1..54 /\ options.salt = salt)
        => (~result.threw /\ result.value = TRUE)

\* C2: verifyId never raises, with or without the options argument: it
\* returns a boolean, and false for an empty identifier, one longer than 54
\* characters and one with a character outside the alphabet.
C2_VerifyNeverRaises ==
    (pc \in {"verified", "verifiedRaw", "verifiedRawOld", "tampered"})
        => /\ ~result.threw
           /\ result.value \in BOOLEAN
           /\ (id = <<>> \/ Len(id) > 54 \/ ~InAlphabet(id)) => result.value = FALSE

\* C3: createId throws InvalidLength exactly when approximateLength <= 0 or
\* approximateLength > 54, before any random draw and any digest; for 1..54
\* it does not throw and the identifier it returns is not empty.
C3_InvalidLength ==
    /\ (pc = "threw" \/ InCreate) =>
          ((approximateLength <= 0 \/ approximateLength > 54)
              <=> (pc = "threw" /\ result = Throw(InvalidLength)))
    /\ pc = "threw" => (draws = 0 /\ digests = 0)
    /\ pc = "created" => (~result.threw /\ id # <<>>)

C3_Witness ==
    pc = "threw" /\ approximateLength = 55 /\ result = Throw(InvalidLength) /\ draws = 0

\* C4: for an identifier of 1..54 alphabet characters, verifyId returns true
\* exactly when the odd-position digits of the decoded hex string are not
\* empty and are a prefix of the digest of salt + the even-position digits.
C4_VerifyDecision ==
    (pc \in {"verified", "verifiedRaw", "tampered"}
        /\ Len(id) \in 1..54 /\ InAlphabet(id))
        => LET h == customAlphabetToHex(id).value
               token == EvenDigits(h)
               prefix == OddDigits(h)
           IN  /\ ~result.threw
               /\ result.value =
                    (/\ prefix # <<>>
                     /\ StartsWith(sha1(SaltOf(options) \o EncodeHex(token)), prefix))

C4_Witness ==
    pc = "verifiedRaw" /\ id = <<"a">> /\ options.passed /\ result = Return(FALSE)

C6_CodecInverse ==
    (hex # <<>> /\ hex[1] # 0) =>
        /\ pc \in {"encoded", "decoded"} => (id # <<>> /\ id[1] # "a" /\ InAlphabet(id))
        /\ pc = "decoded" => result = Return(hex)

C6_Witness ==
    pc = "decoded" /\ Len(hex) = 80 /\ hex[1] = 15 /\ Len(id) = 54 /\ result = Return(hex)

\* C7: the identifier createId returns has only alphabet characters and its
\* length differs from approximateLength by at most 2.
C7_LengthAndAlphabet ==
    pc = "created" =>
        /\ InAlphabet(id)
        /\ Len(id) - approximateLength \in -2..2

C7_Witness ==
    pc = "created" /\ approximateLength = 10 /\ Len(id) = 9

\* C8 as stated: the token has ceil((hexLength + 1) / 2) digits.
C8_TokenOversized ==
    HasToken => Len(hexToken) = (hexLength + 2) \div 2

\* C8 as amended: the token has ceil(hexLength / 2) digits, which is the
\* number of even positions below hexLength, where hexLength is
\* floor(approximateLength * 1.48855).
C8_TokenExact ==
    HasToken =>
        /\ hexLength * 100000 <= approximateLength * 148855
        /\ (hexLength + 1) * 100000 > approximateLength * 148855
        /\ Len(hexToken) = Cardinality({ i \in 0..(hexLength - 1) : i % 2 = 0 })

C8_Witness ==
    pc = "digest" /\ hexLength = 80 /\ Len(hexToken) = 40

\* C9: every index the interleaving loop reads is inside the token,
\* respectively the 40-digit digest, so hexId has hexLength hex digits, token
\* digits at even positions and digest digits at odd positions.
C9_InterleaveInBounds ==
    HasHexId =>
        /\ \A i \in tokenReads : i < Len(hexToken)
        /\ \A i \in hashReads : i < 40 /\ i < Len(hexHash)
        /\ Len(hexId) = hexLength
        /\ \A k \in 1..Len(hexId) : hexId[k] \in 0..15
        /\ EvenDigits(hexId) = SubSeq(hexToken, 1, (hexLength + 1) \div 2)
        /\ OddDigits(hexId) = SubSeq(hexHash, 1, hexLength \div 2)

C9_Witness ==
    pc = "convert" /\ approximateLength = 54 /\ 39 \in hashReads /\ 39 \in tokenReads

\* C10 as stated: every createId call that passed the length checks returns.
C10_AlwaysReturns ==
    (pc = "generate") ~> (pc = "created")

\* C10 as amended: the loop re-draws only while the first byte is below 16
\* and exits on the first draw whose first byte is at least 16, after which
\* createId returns; the token then has exactly the requested number of
\* digits and does not begin with 0.  The number of re-draws has no bound.
C10_ReturnsAfterGoodDraw ==
    /\ [][(pc = "loop" /\ pc' = "loop") => array[1] < 16]_vars
    /\ [][(pc = "loop" /\ array[1] >= 16) => pc' = "digest"]_vars
    /\ (pc = "loop" /\ array[1] >= 16) ~> (pc = "created")
    /\ [](HasToken => (Len(hexToken) = length /\ hexToken[1] # 0))

C10_Witness ==
    pc = "created" /\ draws >= 3 /\ array[1] = 16


\* C11: for an identifier of fewer than 54 characters, verifyId of 'a' + id
\* returns what verifyId of id returns, the decoded hex string being the same
\* (for a non-empty id over the alphabet); a created identifier that verifies
\* therefore still verifies when padded.  Padding an identifier of 54 or more
\* characters is rejected.
C11_ZeroPadding ==
    (pc \in {"padded", "paddedRaw"}) =>
        /\ id = <<"a">> \o origId
        /\ Len(origId) < 54 =>
              /\ result = verifyId(origId, options)
              /\ (origId # <<>> /\ InAlphabet(origId)) =>
                    customAlphabetToHex(id) = customAlphabetToHex(origId)
        /\ Len(origId) >= 54 => result = Return(FALSE)

C11_Witness ==
    /\ pc = "padded"
    /\ Len(origId) = 53
    /\ options.salt = salt
    /\ id # origId
    /\ result = Return(TRUE)

====
